---- MODULE Spec2Model ----
(***************************************************************************)
(* CrowdX (crowdx.mjs): the tracking store, the proxy get/set traps,       *)
(* observable(), reaction(), action(), computed() and dispose(), as a      *)
(* call-stack machine.  Every synchronous call of the library is a frame   *)
(* on `stack`; the frame on top is the one that executes.  User code       *)
(* (tracked functions, effects, action bodies, top-level statements) is a  *)
(* short list of instructions taken from a catalogue of programs.          *)
(***************************************************************************)
EXTENDS Integers, Sequences, FiniteSets, TLC

\* ------------------------------------------------------------- bounds
\* primitive values written by user code are 0..MaxVal
MaxVal == 1
\* at most MaxObjs wrapped objects are ever allocated
MaxObjs == 3
\* a wrapped array holds at most MaxLen elements
MaxLen == 2
\* the tracked function of one reaction starts at most MaxRuns times
\* within one top-level statement
MaxRuns == 4

\* ------------------------------------------------------------- values
\* null / undefined, as the id of "no object" and "no reaction-set"
Null == 0

Undef == [t |-> "undef", v |-> 0]
NaN == [t |-> "nan", v |-> 0]
Num(n) == [t |-> "num", v |-> n]
Str(n) == [t |-> "str", v |-> n]
\* a proxy returned by observable()
Ref(o) == [t |-> "ref", v |-> o]
\* a plain object or array literal of user code
Lit(l) == [t |-> "lit", v |-> l]

IsComposite(x) == x.t \in {"ref", "lit"}

\* JavaScript's !== : a literal is a fresh object, NaN differs from itself
StrictNeq(x, y) == x.t = "lit" \/ y.t = "lit" \/ x.t = "nan" \/ y.t = "nan" \/ x # y

Truthy(x) == ~(x.t \in {"undef", "nan"} \/ (x.t \in {"num", "str"} /\ x.v = 0))

\* JavaScript's + on the values the programs add (numbers)
Plus(x, y) == IF x.t = "num" /\ y.t = "num" THEN Num(x.v + y.v) ELSE NaN

\* the object and array literals of the user programs
LitRoot == 1
LitFoo == 2
LitList == 3
LitFoo1 == 4
LitRootFlag == 5
LitCache == 6
LitObjs == 7
LitEmpty == 8

LitIsArray(l) == l \in {LitList, LitObjs, LitEmpty}

LitKeys(l) ==
    CASE l = LitRoot -> <<"foo", "list">>
      [] l = LitCache -> <<"value">>
      [] l = LitRootFlag -> <<"flag", "foo">>
      [] l = LitFoo -> <<"a", "b">>
      [] l = LitFoo1 -> <<"a", "b">>
      [] OTHER -> <<>>

LitVal(l, k) ==
    CASE l \in {LitRoot, LitRootFlag} /\ k = "foo" -> Lit(LitFoo)
      [] l = LitRoot /\ k = "list" -> Lit(LitList)
      [] l = LitRootFlag /\ k = "flag" -> Num(1)
      [] l = LitFoo -> Num(0)
      [] l = LitFoo1 -> Num(1)
      [] OTHER -> Undef

\* the elements of the array literals: LitList is [0], LitObjs is
\* [{a, b}], LitEmpty is []
LitElems(l) ==
    CASE l = LitList -> <<Num(0)>>
      [] l = LitObjs -> <<Lit(LitFoo1)>>
      [] OTHER -> <<>>

\* ------------------------------------------------- the user programs
\* One instruction of user code.  Paths start at the root proxy `obs`.
Ins(op) == [op |-> op, path |-> <<>>, p2 |-> <<>>, p3 |-> <<>>,
            x |-> Undef, y |-> Undef, r |-> 0]
\* acc = obs.p1.p2...
IGet(path) == [Ins("get") EXCEPT !.path = path]
\* acc = obs.c ? obs.p : obs.q
IGetIf(c, p, q) == [Ins("getif") EXCEPT !.path = c, !.p2 = p, !.p3 = q]
\* acc = JSON.stringify(obs.p)
ISer(path) == [Ins("ser") EXCEPT !.path = path]
\* acc = c()        acc = acc + c()        (c a computed accessor)
IGetC(c) == [Ins("getc") EXCEPT !.r = c]
IAddC(c) == [Ins("addc") EXCEPT !.r = c]
\* obs.p1...pn = x
ISet(path, x) == [Ins("set") EXCEPT !.path = path, !.x = x]
\* obs.p1...pn = obs.q1...qm
ISetP(path, q) == [Ins("setp") EXCEPT !.path = path, !.p2 = q]
\* cache.value = val      (the effect of computed c)
ISetC(c) == [Ins("setc") EXCEPT !.r = c]
\* obs.p.push(x)
IPush(path, x) == [Ins("push") EXCEPT !.path = path, !.x = x]
\* if (handle_r) dispose(handle_r)
IDispose(r) == [Ins("dispose") EXCEPT !.r = r]
\* handle_r = reaction(tracked_r, effect_r)     c_r = computed(fn_r)
IReaction(r) == [Ins("reaction") EXCEPT !.r = r]
IComputed(r) == [Ins("computed") EXCEPT !.r = r]
\* action(body_a)(x, y)
ICall(a, x, y) == [Ins("call") EXCEPT !.r = a, !.x = x, !.y = y]
\* if (acc === x) throw ...      if (arg === x) throw ...   (arg: the
\* parameter of an effect)
IThrowIf(x) == [Ins("throwif") EXCEPT !.x = x]
IThrowArg(x) == [Ins("throwarg") EXCEPT !.x = x]
\* obs = observable(literal)
IObservable(l) == [Ins("observable") EXCEPT !.x = Lit(l)]

Scenarios ==
    {"combine", "diamond", "branch", "shape", "dispose", "alias", "lazy",
     "throws", "reentrant", "nested", "cdispose", "index", "rootshape",
     "rootarr", "athrow"}
Rs == 1..4
\* the reactions scenario sc creates, in the order 1, 2, ...
Count(sc) ==
    CASE sc = "rootarr" -> 0
      [] sc \in {"alias", "index", "rootshape"} -> 1
      [] sc \in {"branch", "shape", "throws", "reentrant", "nested",
                 "athrow"} -> 2
      [] sc \in {"lazy", "cdispose"} -> 3
      [] OTHER -> 4

\* which reactions of a scenario are computeds
IsComputed(sc, r) ==
    CASE sc \in {"combine", "diamond"} -> r \in {1, 2, 3}
      [] sc = "lazy" -> r \in {1, 2}
      [] sc = "cdispose" -> r = 2
      [] OTHER -> FALSE

\* the tracked function of reaction r (the fn of computed r)
Tracked(sc, r) ==
    CASE sc = "combine" /\ r = 1 -> <<IGet(<<"foo", "a">>)>>
      [] sc = "combine" /\ r = 2 -> <<IGet(<<"foo", "b">>)>>
      [] sc = "diamond" /\ r \in {1, 2} -> <<IGet(<<"foo", "a">>)>>
      [] sc \in {"combine", "diamond"} /\ r = 3 -> <<IGetC(1), IAddC(2)>>
      [] sc \in {"combine", "diamond"} /\ r = 4 -> <<IGetC(3)>>
      [] sc = "branch" /\ r = 1 ->
            <<IGetIf(<<"flag">>, <<"foo", "a">>, <<"foo", "b">>)>>
      [] sc = "branch" /\ r = 2 -> <<IGet(<<"foo", "a">>)>>
      [] sc = "shape" /\ r = 1 -> <<ISer(<<"foo">>)>>
      [] sc = "shape" /\ r = 2 -> <<IGet(<<"foo", "a">>)>>
      [] sc = "dispose" /\ r \in {1, 2} -> <<IGet(<<"foo", "a">>)>>
      [] sc = "dispose" /\ r = 3 -> <<IGet(<<"foo", "a">>), IDispose(3)>>
      [] sc = "dispose" /\ r = 4 -> <<IGet(<<"list">>)>>
      [] sc = "alias" /\ r = 1 -> <<IGet(<<"foo", "a">>)>>
      [] sc = "index" /\ r = 1 -> <<IGet(<<"list", "0">>)>>
      [] sc = "rootshape" /\ r = 1 -> <<ISer(<<>>)>>
      [] sc = "cdispose" /\ r \in {1, 2} -> <<IGet(<<"foo", "a">>)>>
      [] sc = "cdispose" /\ r = 3 -> <<IGetC(2)>>
      [] sc = "nested" /\ r = 1 -> <<IGet(<<"foo", "a">>)>>
      [] sc = "nested" /\ r = 2 -> <<IGet(<<"foo", "b">>)>>
      [] sc = "reentrant" /\ r = 1 -> <<IGet(<<"foo", "b">>)>>
      [] sc = "reentrant" /\ r = 2 ->
            <<ISet(<<"foo", "b">>, Num(1)), IGet(<<"foo", "a">>)>>
      [] sc = "throws" /\ r = 1 -> <<IGet(<<"foo", "a">>), IThrowIf(Num(1))>>
      [] sc = "throws" /\ r = 2 -> <<IGet(<<"foo", "b">>)>>
      [] sc = "athrow" /\ r \in {1, 2} -> <<IGet(<<"foo", "a">>)>>
      [] sc = "lazy" /\ r = 1 -> <<IGet(<<"foo", "stuff">>)>>
      [] sc = "lazy" /\ r \in {2, 3} -> <<IGetC(r - 1)>>
      [] OTHER -> <<>>

\* the effect function of reaction r; every effect also records its
\* argument (latestValue = x; reactions++), see effs and lastArg
Effect(sc, r) ==
    CASE IsComputed(sc, r) -> <<ISetC(r)>>
      [] sc = "branch" /\ r = 2 -> <<ISet(<<"foo", "a">>, Num(1))>>
      [] sc \in {"dispose", "cdispose"} /\ r = 1 -> <<IDispose(2)>>
      [] sc = "throws" /\ r = 2 -> <<IThrowArg(Num(1))>>
      [] OTHER -> <<>>

\* the body of action a, called with arguments x and y; body 8 is
\* obs.foo.a = x; if (obs.foo.a === y) throw ...
ActionBody(a, x, y) ==
    CASE a = 1 -> <<ISet(<<"foo", "a">>, x), ISet(<<"foo", "b">>, y)>>
      [] a = 2 -> <<IPush(<<"list">>, x), ISet(<<"foo", "a">>, y)>>
      [] a = 3 -> <<ISet(<<"foo", "a">>, x), IDispose(2)>>
      [] a = 4 -> <<ISet(<<"foo", "stuff">>, x), ISet(<<"foo", "a">>, y)>>
      [] a = 5 -> <<ISet(<<"foo", "a">>, x), ICall(6, y, y)>>
      [] a = 6 -> <<ISet(<<"foo", "b">>, x)>>
      [] a = 7 -> <<IPush(<<>>, x)>>
      [] a = 8 -> <<ISet(<<"foo", "a">>, x), IGet(<<"foo", "a">>), IThrowIf(y)>>
      [] OTHER -> <<>>

RootLit(sc) ==
    IF sc \in {"branch", "shape", "alias", "lazy", "throws", "reentrant",
              "nested", "cdispose", "rootshape", "athrow"}
    THEN LitRootFlag ELSE LitRoot

\* -------------------------------------------------------------- state
VARIABLES
    scenario,   \* which user program runs
    objs,       \* the proxied objects: target, PROPERTY_REACTIONS, PARENT_REACTIONS
    rsets,      \* the reaction-sets (new Set()), each in insertion order
    subs,       \* subscriptionsStore.reactionSubscriptionSets
    tracking,   \* subscriptionsStore.currentlyTracking
    batch,      \* subscriptionsStore.currentActionReactionSets
    root,       \* the user's variable obs
    cache,      \* the cache object in the closure of each computed
    made,       \* the handles reaction()/computed() have returned
    stack,      \* the call stack, innermost call last
    stmt,       \* the top-level statement being (or last) executed
    runs,       \* per reaction: tracked-function calls during stmt
    effs,       \* per reaction: effect calls during stmt
    lastRes,    \* per reaction: what its tracked function last returned
    lastArg,    \* per reaction: the argument of its last effect call
    lastReads,  \* per reaction: the reaction-sets of the fields its latest run read
    wrote,      \* the fields (object, key) whose stored value changed during stmt
    disposed    \* the reactions whose handle dispose() has been given

vars == <<scenario, objs, rsets, subs, tracking, batch, root, cache, made,
          stack, stmt, runs, effs, lastRes, lastArg, lastReads, wrote,
          disposed>>

store == <<subs, tracking, batch>>
heap == <<objs, rsets>>
user == <<root, cache, made>>
history == <<runs, effs, lastRes, lastArg, lastReads, wrote, disposed>>

EmptyFn == [k \in {} |-> 0]
NoTracking == [fn |-> Null, sets |-> {}]
NoBatch == [open |-> FALSE, sets |-> <<>>]

\* an observable() that never defines PARENT_REACTIONS
NewObjOrphan(isArr, parent) ==
    [arr |-> isArr, keys |-> <<>>, val |-> EmptyFn, h |-> EmptyFn,
     parent |-> Null, elems |-> <<>>]

\* a fresh target: [] or {}, with PROPERTY_REACTIONS = {} and the parent
NewObj(isArr, parent) ==
    [arr |-> isArr, keys |-> <<>>, val |-> EmptyFn, h |-> EmptyFn,
     parent |-> parent, elems |-> <<>>]

\* for an array target and an index key ("0", "1"), the 1-based position
\* of the element, else 0
ElemIndex(o, k) ==
    IF ~objs[o].arr THEN 0
    ELSE CASE k = "0" -> 1 [] k = "1" -> 2 [] OTHER -> 0

\* target[prop]
PropVal(o, k) ==
    IF k \in DOMAIN objs[o].val THEN objs[o].val[k]
    ELSE IF ElemIndex(o, k) \in 1..Len(objs[o].elems)
    THEN objs[o].elems[ElemIndex(o, k)]
    ELSE Undef
\* target[PROPERTY_REACTIONS][prop]
HandleOf(o, k) == IF k \in DOMAIN objs[o].h THEN objs[o].h[k] ELSE Null
\* a get trap that looks the handle up by the name of the field alone
GetTracksByName(o, k) ==
    {objs[q].h[k] : q \in {z \in DOMAIN objs : k \in DOMAIN objs[z].h}}

\* the handles the get trap tracks when prop is read
GetTracks(o, k) == IF k \in DOMAIN objs[o].h THEN {objs[o].h[k]} ELSE {}

\* x.p1.p2...: the value, and the handles the get traps track on the way
RECURSIVE PathVal(_, _)
PathVal(x, path) ==
    IF path = <<>> THEN x
    ELSE IF x.t = "ref" THEN PathVal(PropVal(x.v, Head(path)), Tail(path))
    ELSE Undef
RECURSIVE PathSets(_, _)
PathSets(x, path) ==
    IF path = <<>> \/ x.t # "ref" THEN {}
    ELSE GetTracks(x.v, Head(path))
            \cup PathSets(PropVal(x.v, Head(path)), Tail(path))

Front(q) == SubSeq(q, 1, Len(q) - 1)
Last(q) == q[Len(q)]
SeqRange(q) == {q[i] : i \in 1..Len(q)}
\* Set.prototype.add / delete on an insertion-ordered Set
SetAdd(q, e) == IF e \in SeqRange(q) THEN q ELSE Append(q, e)
SetDelete(q, e) == SelectSeq(q, LAMBDA z : z # e)
\* the 1-based position of e in q, 0 when absent
PosOf(q, e) == IF e \in SeqRange(q)
               THEN CHOOSE i \in 1..Len(q) : q[i] = e ELSE 0

ZeroRuns == [r \in Rs |-> 0]

Init ==
    /\ scenario \in Scenarios
    /\ objs = <<>>
    /\ rsets = <<>>
    /\ subs = EmptyFn
    /\ tracking = NoTracking
    /\ batch = NoBatch
    /\ root = Null
    /\ cache = [r \in Rs |-> Null]
    /\ made = {}
    /\ stack = <<>>
    /\ stmt = [op |-> "none", path |-> <<>>, p2 |-> <<>>, p3 |-> <<>>,
               x |-> Undef, y |-> Undef, r |-> 0]
    /\ runs = ZeroRuns
    /\ effs = ZeroRuns
    /\ lastRes = [r \in Rs |-> Undef]
    /\ lastArg = [r \in Rs |-> Undef]
    /\ lastReads = [r \in Rs |-> {}]
    /\ wrote = {}
    /\ disposed = {}

\* ------------------------------------------------- the tracking store
\* beginTracking(func): the new frame, and the entry of the subscription map
BeginTracking(r) == [fn |-> r, sets |-> {}]
BeginTrackingSubs(sb, r) == IF r \in DOMAIN sb THEN sb ELSE (r :> {}) @@ sb

\* completeTracking() that subscribes the tracked function to nothing
CompleteTrackingNone(tr, rs) == rs

\* completeTracking(): the tracked function joins every collected set
CompleteTracking(tr, rs) ==
    IF tr.fn # Null
    THEN [s \in 1..Len(rs) |->
            IF s \in tr.sets THEN SetAdd(rs[s], tr.fn) ELSE rs[s]]
    ELSE rs

\* completeTracking() that leaves the frame open
CloseTrackingNever(tr) == tr

\* completeTracking(): this.currentlyTracking = null
CloseTracking(tr) == NoTracking

\* a track() without the test for an open frame
TrackAlways(tr, S) == [tr EXCEPT !.sets = @ \cup S]

\* track(reactionSet), for all the handles S one read expression touches
Track(tr, S) == IF tr.fn # Null THEN [tr EXCEPT !.sets = @ \cup S] ELSE tr
TrackSubs(tr, sb, S) ==
    IF tr.fn # Null /\ tr.fn \in DOMAIN sb
    THEN [sb EXCEPT ![tr.fn] = @ \cup S] ELSE sb

\* a dispose() that clears the reaction-sets the reaction was in
DisposeSetsClear(sb, rs, r) ==
    IF r \in DOMAIN sb
    THEN [s \in 1..Len(rs) |-> IF s \in sb[r] THEN <<>> ELSE rs[s]]
    ELSE rs

\* dispose(reaction): the reaction-sets and the subscription map afterwards
DisposeSets(sb, rs, r) ==
    IF r \in DOMAIN sb
    THEN [s \in 1..Len(rs) |->
            IF s \in sb[r] THEN SetDelete(rs[s], r) ELSE rs[s]]
    ELSE rs
DisposeSubs(sb, r) == [x \in DOMAIN sb \ {r} |-> sb[x]]

\* publish() and completeAction() that never see an open action
InActionNever(b) == FALSE

\* this.currentActionReactionSets != null
InAction(b) == b.open

\* publish(reactionSet) inside an action: the set is put aside
Defer(b, s) == [b EXCEPT !.sets = SetAdd(@, s)]

\* publishAll, else branch: the de-duplicated reactions of all the sets
RECURSIVE AddAll(_, _)
AddAll(acc, q) ==
    IF q = <<>> THEN acc ELSE AddAll(SetAdd(acc, Head(q)), Tail(q))
\* a publishAll that collects the members of the first set only
AllReactionsHead(acc, sets, rs) ==
    IF sets = <<>> THEN acc ELSE AddAll(acc, rs[Head(sets)])

RECURSIVE AllReactions(_, _, _)
AllReactions(acc, sets, rs) ==
    IF sets = <<>> THEN acc
    ELSE AllReactions(AddAll(acc, rs[Head(sets)]), Tail(sets), rs)

\* ---------------------------------------------------------- the frames
\* a user function that is executing
BodyFrame(code, role, r, arg) ==
    [k |-> "body", code |-> code, pc |-> 1, role |-> role, r |-> r,
     acc |-> Undef, arg |-> arg]
\* reactionFn()
ReactFrame(r) == [k |-> "react", r |-> r, phase |-> "begin", res |-> Undef]
\* proxyHandler.set, from the call of observable() on; once the trap has
\* published: t the set it published to, deferred whether into a batch,
\* exp the readers of t and runs0, effs0 the counts at that moment
SetFrame(o, prop, newProp, w, phase) ==
    [k |-> "set", o |-> o, prop |-> prop, newProp |-> newProp, w |-> w,
     phase |-> phase, t |-> Null, deferred |-> FALSE, exp |-> {},
     runs0 |-> ZeroRuns, effs0 |-> ZeroRuns]
\* observable(val, parentReactionSet): the copy loop
WrapFrame(o, src, dest) ==
    [k |-> "wrap", o |-> o, src |-> src, i |-> 1, dest |-> dest]
\* publish(reactionSet), else branch: the for-of over the live Set
PubFrame(s) == [k |-> "pub", s |-> s, i |-> 0]
\* publishAll(reactionSets), else branch: the for-of over allReactions
PubAllFrame(all) == [k |-> "puball", all |-> all, i |-> 0]
\* the function action(fn) returned
ActFrame == [k |-> "act", phase |-> "body"]
\* reaction(trackedFn, effectFn) / computed(fn)
MkFrame(r, phase) == [k |-> "mk", r |-> r, phase |-> phase]
\* an exception thrown in the call below it on the stack, on its way up
ExcFrame == [k |-> "exc"]

Top == stack[Len(stack)]
Rest == Front(stack)
Running == stack # <<>>
\* the top frame is a user function about to execute instruction op
AtIns(ops) ==
    /\ Running
    /\ Top.k = "body"
    /\ Top.pc <= Len(Top.code)
    /\ Top.code[Top.pc].op \in ops
CurIns == Top.code[Top.pc]
\* the stack once the running user function has moved past its instruction
Advanced(acc) == Append(Rest, [Top EXCEPT !.pc = @ + 1, !.acc = acc])

\* ------------------------------------------------ the proxy: get trap
\* JSON.stringify(proxy): every own key is read, the text is the content
KeyIndex(k) == CASE k = "a" -> 0 [] k = "b" -> 1 [] OTHER -> 2
RECURSIVE SerSum(_, _)
SerSum(o, keys) ==
    IF keys = <<>> THEN 0
    ELSE (PropVal(o, Head(keys)).v + 1) * ((MaxVal + 2) ^ KeyIndex(Head(keys)))
            + SerSum(o, Tail(keys))
Stringify(x) == IF x.t = "ref" THEN Str(SerSum(x.v, objs[x.v].keys)) ELSE x
StringifySets(x) ==
    IF x.t = "ref"
    THEN UNION {GetTracks(x.v, k) : k \in SeqRange(objs[x.v].keys)} ELSE {}

\* the value of a read expression of user code, the accumulator being acc
ReadVal(ins, acc) ==
    CASE ins.op = "get" -> PathVal(Ref(root), ins.path)
      [] ins.op = "getif" ->
            IF Truthy(PathVal(Ref(root), ins.path))
            THEN PathVal(Ref(root), ins.p2) ELSE PathVal(Ref(root), ins.p3)
      [] ins.op = "ser" -> Stringify(PathVal(Ref(root), ins.path))
      [] ins.op = "getc" -> PropVal(cache[ins.r], "value")
      [] ins.op = "addc" -> Plus(acc, PropVal(cache[ins.r], "value"))

\* the handles its get traps hand to track()
ReadSets(ins) ==
    CASE ins.op = "get" -> PathSets(Ref(root), ins.path)
      [] ins.op = "getif" ->
            PathSets(Ref(root), ins.path) \cup
            (IF Truthy(PathVal(Ref(root), ins.path))
             THEN PathSets(Ref(root), ins.p2) ELSE PathSets(Ref(root), ins.p3))
      [] ins.op = "ser" ->
            PathSets(Ref(root), ins.path)
                \cup StringifySets(PathVal(Ref(root), ins.path))
      [] ins.op \in {"getc", "addc"} -> GetTracks(cache[ins.r], "value")

\* proxyHandler.get for a property that is not an array mutator:
\* track the handle if there is one, return target[prop]
ProxyGet ==
    /\ AtIns({"get", "getif", "ser", "getc", "addc"})
    /\ LET S == ReadSets(CurIns) IN
        /\ tracking' = Track(tracking, S)
        /\ subs' = TrackSubs(tracking, subs, S)
        /\ lastReads' = IF Top.role = "tracked"
                        THEN [lastReads EXCEPT ![Top.r] = @ \cup S]
                        ELSE lastReads
    /\ stack' = Advanced(ReadVal(CurIns, Top.acc))
    /\ UNCHANGED <<scenario, heap, batch, user, stmt, runs, effs, lastRes,
                   lastArg, wrote, disposed>>

\* ------------------------------------------------ the proxy: set trap
IsArrayVal(x) == IF x.t = "lit" THEN LitIsArray(x.v) ELSE objs[x.v].arr
\* a copy loop that misses the first key
SrcKeysTail(x) ==
    LET ks == IF x.t = "lit" THEN LitKeys(x.v) ELSE objs[x.v].keys
    IN IF ks = <<>> THEN ks ELSE Tail(ks)

SrcKeys(x) == IF x.t = "lit" THEN LitKeys(x.v) ELSE objs[x.v].keys
SrcElems(x) == IF x.t = "lit" THEN LitElems(x.v) ELSE objs[x.v].elems
SrcVal(x, k) == IF x.t = "lit" THEN LitVal(x.v, k) ELSE PropVal(x.v, k)
SrcTracks(x, k) == IF x.t = "lit" THEN {} ELSE GetTracks(x.v, k)

\* a set trap that makes a new reaction-set on every effective write
SetTrapRemint(o, prop, x, st) ==
    IF ~StrictNeq(PropVal(o, prop), x)
    THEN [objs |-> objs, rsets |-> rsets, stack |-> st]
    ELSE LET newProperty ==
                /\ prop \notin DOMAIN objs[o].val
                /\ ElemIndex(o, prop) \notin 1..Len(objs[o].elems)
             hid == Len(rsets) + 1
             rs1 == Append(rsets, <<>>)
             os1 == [objs EXCEPT ![o].h = (prop :> hid) @@ @]
         IN IF IsComposite(x)
            THEN [objs |-> Append(os1, NewObj(IsArrayVal(x), hid)),
                  rsets |-> rs1,
                  stack |-> st \o <<SetFrame(o, prop, newProperty, Undef, "wrap"),
                                    WrapFrame(Len(os1) + 1, x, "set")>>]
            ELSE [objs |-> os1, rsets |-> rs1,
                  stack |-> Append(st, SetFrame(o, prop, newProperty, x, "assign"))]

\* proxyHandler.set up to its call of observable(value, handle): nothing
\* at all when the value is identical; else the handle is minted if
\* missing, and observable() either returns a primitive as it is or starts
\* a fresh proxy whose copy loop runs next.  st is the caller's stack.
SetTrap(o, prop, x, st) ==
    IF ~StrictNeq(PropVal(o, prop), x)
    THEN [objs |-> objs, rsets |-> rsets, stack |-> st]
    ELSE LET newProperty ==
                /\ prop \notin DOMAIN objs[o].val
                /\ ElemIndex(o, prop) \notin 1..Len(objs[o].elems)
             minted == HandleOf(o, prop) = Null
             hid == IF minted THEN Len(rsets) + 1 ELSE HandleOf(o, prop)
             rs1 == IF minted THEN Append(rsets, <<>>) ELSE rsets
             os1 == [objs EXCEPT ![o].h = (prop :> hid) @@ @]
         IN IF IsComposite(x)
            THEN [objs |-> Append(os1, NewObj(IsArrayVal(x), hid)),
                  rsets |-> rs1,
                  stack |-> st \o <<SetFrame(o, prop, newProperty, Undef, "wrap"),
                                    WrapFrame(Len(os1) + 1, x, "set")>>]
            ELSE [objs |-> os1, rsets |-> rs1,
                  stack |-> Append(st, SetFrame(o, prop, newProperty, x, "assign"))]

\* user code assigns a field: obs.p1...pn = x, or cache.value = val
SetTarget(ins) ==
    IF ins.op = "setc" THEN cache[ins.r]
    ELSE PathVal(Ref(root), Front(ins.path)).v
SetProp(ins) == IF ins.op = "setc" THEN "value" ELSE Last(ins.path)
SetValue(ins, f) ==
    CASE ins.op = "setc" -> f.arg
      [] ins.op = "setp" -> PathVal(Ref(root), ins.p2)
      [] OTHER -> ins.x

ProxySet ==
    /\ AtIns({"set", "setc", "setp"})
    /\ LET ins == CurIns
           S == IF ins.op = "setc" THEN {}
                ELSE PathSets(Ref(root), Front(ins.path))
                        \cup PathSets(Ref(root), ins.p2)
           res == SetTrap(SetTarget(ins), SetProp(ins), SetValue(ins, Top),
                          Advanced(Top.acc))
       IN /\ tracking' = Track(tracking, S)
          /\ subs' = TrackSubs(tracking, subs, S)
          /\ objs' = res.objs
          /\ rsets' = res.rsets
          /\ stack' = res.stack
    /\ UNCHANGED <<scenario, batch, user, stmt, history>>

\* a set trap that publishes to the property's own handle also when the
\* property is new
PublishTargetOwn(o, prop, newProperty) == HandleOf(o, prop)

\* which reaction-set a changed property publishes to (Null: none)
PublishTarget(o, prop, newProperty) ==
    IF newProperty THEN objs[o].parent ELSE HandleOf(o, prop)

\* the reactions whose latest run read a field whose handle is s
Readers(s) == {r \in Rs : s \in lastReads[r] /\ r \notin disposed}

\* proxyHandler.set after observable() returned: store, then publish
SetAssign ==
    /\ Running /\ Top.k = "set" /\ Top.phase = "assign"
    /\ LET f == Top
           t == PublishTarget(f.o, f.prop, f.newProp)
           g == [f EXCEPT !.phase = "ret", !.t = t,
                          !.deferred = batch.open,
                          !.exp = IF t # Null THEN Readers(t) ELSE {},
                          !.runs0 = runs, !.effs0 = effs]
           idx == ElemIndex(f.o, f.prop)
       IN /\ objs' = IF idx > 0
                    THEN [objs EXCEPT ![f.o].elems =
                            IF idx <= Len(@) THEN [@ EXCEPT ![idx] = f.w]
                            ELSE Append(@, f.w)]
                    ELSE [objs EXCEPT ![f.o].val = (f.prop :> f.w) @@ @,
                                      ![f.o].keys = SetAdd(@, f.prop)]
          /\ IF t = Null
             THEN stack' = Append(Rest, g) /\ UNCHANGED batch
             ELSE IF InAction(batch)
             THEN stack' = Append(Rest, g) /\ batch' = Defer(batch, t)
             ELSE stack' = Rest \o <<g, PubFrame(t)>> /\ UNCHANGED batch
          /\ wrote' = wrote \cup {<<f.o, f.prop>>}
    /\ UNCHANGED <<scenario, rsets, subs, tracking, user, stmt, runs, effs,
                   lastRes, lastArg, lastReads, disposed>>

\* proxyHandler.set returns true
SetReturn ==
    /\ Running /\ Top.k = "set" /\ Top.phase = "ret"
    /\ stack' = Rest
    /\ UNCHANGED <<scenario, heap, store, user, stmt, history>>

\* ------------------------------------------------------- observable()
\* a substitute that performs the operation and publishes nothing
ArrayPushSilent(o, x, st) ==
    [objs |-> [objs EXCEPT ![o].elems = Append(@, x)],
     batch |-> batch, stack |-> st]

\* the substitute the get trap returns for an array mutator, here push:
\* target.push(x) on the raw target, then publish(target[PARENT_REACTIONS]).
\* A target without PARENT_REACTIONS hands undefined to publish: inside
\* an action it is added to the batch like a set, outside the for-of over
\* it throws a TypeError
ArrayPush(o, x, st) ==
    LET p == objs[o].parent IN
    [objs |-> [objs EXCEPT ![o].elems = Append(@, x)],
     batch |-> IF InAction(batch) THEN Defer(batch, p) ELSE batch,
     stack |-> IF InAction(batch) THEN st
               ELSE IF p = Null THEN st \o <<PubFrame(p), ExcFrame>>
               ELSE Append(st, PubFrame(p))]

\* obs = observable(literal) at top level: a fresh root proxy, no parent
Observable ==
    /\ AtIns({"observable"})
    /\ objs' = Append(objs, NewObj(IsArrayVal(CurIns.x), Null))
    /\ stack' = Append(Advanced(Top.acc),
                       WrapFrame(Len(objs) + 1, CurIns.x, "root"))
    /\ UNCHANGED <<scenario, rsets, store, user, stmt, history>>

\* the copy loop over Object.keys(val): proxy[key] = val[key]
WrapCopyKey ==
    /\ Running /\ Top.k = "wrap" /\ ~IsArrayVal(Top.src)
    /\ Top.i <= Len(SrcKeys(Top.src))
    /\ LET key == SrcKeys(Top.src)[Top.i]
           S == SrcTracks(Top.src, key)
           res == SetTrap(Top.o, key, SrcVal(Top.src, key),
                          Append(Rest, [Top EXCEPT !.i = @ + 1]))
       IN /\ tracking' = Track(tracking, S)
          /\ subs' = TrackSubs(tracking, subs, S)
          /\ objs' = res.objs
          /\ rsets' = res.rsets
          /\ stack' = res.stack
    /\ UNCHANGED <<scenario, batch, user, stmt, history>>

\* the copy loop over an array: proxy.push(val[i])
WrapCopyElem ==
    /\ Running /\ Top.k = "wrap" /\ IsArrayVal(Top.src)
    /\ Top.i <= Len(SrcElems(Top.src))
    /\ LET res == ArrayPush(Top.o, SrcElems(Top.src)[Top.i],
                            Append(Rest, [Top EXCEPT !.i = @ + 1]))
       IN /\ objs' = res.objs
          /\ batch' = res.batch
          /\ stack' = res.stack
    /\ UNCHANGED <<scenario, rsets, subs, tracking, user, stmt, history>>

WrapDone ==
    /\ Running /\ Top.k = "wrap"
    /\ Top.i > (IF IsArrayVal(Top.src) THEN Len(SrcElems(Top.src))
                ELSE Len(SrcKeys(Top.src)))

\* observable() returns the proxy: to the set trap that called it, to the
\* user's variable obs, or to the cache variable of computed()
WrapReturn ==
    /\ WrapDone
    /\ LET below == Last(Rest) IN
        CASE Top.dest = "set" ->
                /\ stack' = Append(Front(Rest),
                        [below EXCEPT !.w = Ref(Top.o), !.phase = "assign"])
                /\ UNCHANGED user
          [] Top.dest = "root" ->
                /\ stack' = Rest
                /\ root' = Top.o
                /\ UNCHANGED <<cache, made>>
          [] Top.dest = "cache" ->
                /\ stack' = Append(Front(Rest), [below EXCEPT !.phase = "ready"])
                /\ cache' = [cache EXCEPT ![below.r] = Top.o]
                /\ UNCHANGED <<root, made>>
    /\ UNCHANGED <<scenario, heap, store, stmt, history>>

\* user code calls obs.p.push(x); the substitute returns res, what
\* target.push(x) returned: the new length
UserPush ==
    /\ AtIns({"push"})
    /\ LET S == PathSets(Ref(root), CurIns.path)
           o == PathVal(Ref(root), CurIns.path).v
           res == ArrayPush(o, CurIns.x,
                            Advanced(Num(Len(objs[o].elems) + 1)))
       IN /\ Len(objs[o].elems) < MaxLen
          /\ tracking' = Track(tracking, S)
          /\ subs' = TrackSubs(tracking, subs, S)
          /\ objs' = res.objs
          /\ batch' = res.batch
          /\ stack' = res.stack
    /\ UNCHANGED <<scenario, rsets, user, stmt, history>>

\* ------------------------------------------------------------ dispose()
\* a delete from a live Set moves the for-of iterators that are past it
AfterDelete(st, sb, r) ==
    [n \in 1..Len(st) |->
        IF st[n].k = "pub" /\ r \in DOMAIN sb /\ st[n].s \in sb[r]
           /\ PosOf(rsets[st[n].s], r) \in 1..st[n].i
        THEN [st[n] EXCEPT !.i = @ - 1] ELSE st[n]]

\* if (handle) dispose(handle)
Dispose ==
    /\ AtIns({"dispose"})
    /\ LET r == CurIns.r IN
        IF r \in made
        THEN /\ rsets' = DisposeSets(subs, rsets, r)
             /\ subs' = DisposeSubs(subs, r)
             /\ stack' = AfterDelete(Advanced(Top.acc), subs, r)
             /\ disposed' = disposed \cup {r}
        ELSE /\ stack' = Advanced(Top.acc)
             /\ UNCHANGED <<rsets, subs, disposed>>
    /\ UNCHANGED <<scenario, objs, tracking, batch, user, stmt, runs, effs,
                   lastRes, lastArg, lastReads, wrote>>

\* ----------------------------------------------- reaction(), computed()
\* handle = reaction(trackedFn, effectFn): reactionFn() is called first
Reaction ==
    /\ AtIns({"reaction"})
    /\ stack' = Advanced(Top.acc)
                    \o <<MkFrame(CurIns.r, "run"), ReactFrame(CurIns.r)>>
    /\ UNCHANGED <<scenario, heap, store, user, stmt, history>>

\* c = computed(fn): cache = observable({ value: undefined }) is first
Computed ==
    /\ AtIns({"computed"})
    /\ objs' = Append(objs, NewObj(FALSE, Null))
    /\ stack' = Advanced(Top.acc)
                    \o <<MkFrame(CurIns.r, "cache"),
                         WrapFrame(Len(objs) + 1, Lit(LitCache), "cache")>>
    /\ UNCHANGED <<scenario, rsets, store, user, stmt, history>>

\* computed(): reaction(fn, val => cache.value = val)
ComputedReaction ==
    /\ Running /\ Top.k = "mk" /\ Top.phase = "ready"
    /\ stack' = Rest \o <<[Top EXCEPT !.phase = "run"], ReactFrame(Top.r)>>
    /\ UNCHANGED <<scenario, heap, store, user, stmt, history>>

\* reaction() / computed() return the handle / the accessor
MakeReturn ==
    /\ Running /\ Top.k = "mk" /\ Top.phase = "run"
    /\ made' = made \cup {Top.r}
    /\ stack' = Rest
    /\ UNCHANGED <<scenario, heap, store, root, cache, stmt, history>>

\* reactionFn: beginTracking(reactionFn), then trackedFn() is called
ReactionBegin ==
    /\ Running /\ Top.k = "react" /\ Top.phase = "begin"
    /\ runs[Top.r] < MaxRuns
    /\ tracking' = BeginTracking(Top.r)
    /\ subs' = BeginTrackingSubs(subs, Top.r)
    /\ runs' = [runs EXCEPT ![Top.r] = @ + 1]
    /\ lastReads' = [lastReads EXCEPT ![Top.r] = {}]
    /\ stack' = Rest \o <<[Top EXCEPT !.phase = "tracked"],
                          BodyFrame(Tracked(scenario, Top.r), "tracked", Top.r, Undef)>>
    /\ UNCHANGED <<scenario, heap, batch, user, stmt, effs, lastRes, lastArg,
                   wrote, disposed>>

\* a reactionFn that starts over whenever trackedFn() has returned
TrackedReturnAgain ==
    /\ Running /\ Top.k = "body" /\ Top.pc > Len(Top.code)
    /\ Top.role = "tracked"
    /\ stack' = Append(Front(Rest),
                       [Last(Rest) EXCEPT !.res = Top.acc, !.phase = "begin"])
    /\ lastRes' = [lastRes EXCEPT ![Top.r] = Top.acc]
    /\ UNCHANGED <<scenario, heap, store, user, stmt, runs, effs, lastArg,
                   lastReads, wrote, disposed>>

\* trackedFn() returns its result to reactionFn
TrackedReturn ==
    /\ Running /\ Top.k = "body" /\ Top.pc > Len(Top.code)
    /\ Top.role = "tracked"
    /\ stack' = Append(Front(Rest),
                       [Last(Rest) EXCEPT !.res = Top.acc, !.phase = "complete"])
    /\ lastRes' = [lastRes EXCEPT ![Top.r] = Top.acc]
    /\ UNCHANGED <<scenario, heap, store, user, stmt, runs, effs, lastArg,
                   lastReads, wrote, disposed>>

\* reactionFn that calls effectFn() without the result
EffectArgNone(f) == Undef

\* the argument reactionFn passes to effectFn
EffectArg(f) == f.res

\* reactionFn: completeTracking(), then effectFn(result) is called
ReactionComplete ==
    /\ Running /\ Top.k = "react" /\ Top.phase = "complete"
    /\ rsets' = CompleteTracking(tracking, rsets)
    /\ tracking' = CloseTracking(tracking)
    /\ effs' = [effs EXCEPT ![Top.r] = @ + 1]
    /\ lastArg' = [lastArg EXCEPT ![Top.r] = EffectArg(Top)]
    /\ stack' = Rest \o <<[Top EXCEPT !.phase = "effect"],
                          BodyFrame(Effect(scenario, Top.r), "effect", Top.r,
                                    EffectArg(Top))>>
    /\ UNCHANGED <<scenario, objs, subs, batch, user, stmt, runs, lastRes,
                   lastReads, wrote, disposed>>

\* an effect or an action body returns
FunctionReturn ==
    /\ Running /\ Top.k = "body" /\ Top.pc > Len(Top.code)
    /\ Top.role \in {"effect", "action"}
    /\ stack' = Rest
    /\ UNCHANGED <<scenario, heap, store, user, stmt, history>>

\* ---------------------------------------------------------- exceptions
\* what an if (...) throw statement of user code compares
ThrowTest(f) == IF f.code[f.pc].op = "throwarg" THEN f.arg ELSE f.acc

\* user code: if (acc === x) throw ...; a run of a tracked function that
\* throws is no completed run, its reads are not recorded as the reads of
\* the latest run
Throw ==
    /\ AtIns({"throwif", "throwarg"})
    /\ LET thrown == ThrowTest(Top) = CurIns.x IN
        /\ stack' = IF thrown THEN Append(stack, ExcFrame)
                    ELSE Advanced(Top.acc)
        /\ lastReads' = IF thrown /\ Top.role = "tracked"
                        THEN [lastReads EXCEPT ![Top.r] = {}] ELSE lastReads
    /\ UNCHANGED <<scenario, heap, store, user, stmt, runs, effs, lastRes,
                   lastArg, wrote, disposed>>

\* a library call that catches every exception of the reactions it runs
HandlerInPublish(f) == f.k \in {"pub", "puball"}

\* whether call f of the library has a try/catch around what it calls:
\* crowdx.mjs has no try statement
Handler(f) == FALSE

\* the exception leaves the call it was thrown in; the caller goes on if
\* it catches, else the exception is now thrown in the caller
Unwind ==
    /\ Running /\ Top.k = "exc" /\ Len(stack) > 2
    /\ stack' = IF Handler(stack[Len(stack) - 2])
                THEN SubSeq(stack, 1, Len(stack) - 2)
                ELSE Append(SubSeq(stack, 1, Len(stack) - 2), Top)
    /\ UNCHANGED <<scenario, heap, store, user, stmt, history>>

NoStmt == Ins("none")
NoVals == [r \in Rs |-> Undef]

\* the top-level statement is complete; what was recorded about it is dropped
StatementDone ==
    /\ Running /\ Top.k = "body" /\ Top.pc > Len(Top.code)
    /\ Top.role = "main"
    /\ stack' = Rest
    /\ stmt' = NoStmt
    /\ runs' = ZeroRuns
    /\ effs' = ZeroRuns
    /\ lastRes' = NoVals
    /\ lastArg' = NoVals
    /\ wrote' = {}
    /\ UNCHANGED <<scenario, heap, store, user, lastReads, disposed>>

\* the top-level statement has thrown; what was recorded about it is dropped
StatementThrew ==
    /\ Running /\ Top.k = "exc" /\ Len(stack) = 2
    /\ stack' = <<>>
    /\ stmt' = NoStmt
    /\ runs' = ZeroRuns
    /\ effs' = ZeroRuns
    /\ lastRes' = NoVals
    /\ lastArg' = NoVals
    /\ wrote' = {}
    /\ UNCHANGED <<scenario, heap, store, user, lastReads, disposed>>

\* reactionFn returns after effectFn
ReactionReturn ==
    /\ Running /\ Top.k = "react" /\ Top.phase = "effect"
    /\ stack' = Rest
    /\ UNCHANGED <<scenario, heap, store, user, stmt, history>>

\* ------------------------------------------------------------- action()
\* the wrapped function: beginAction(), then fn(...args) is called
CallAction ==
    /\ AtIns({"call"})
    /\ batch' = [open |-> TRUE, sets |-> <<>>]
    /\ stack' = Advanced(Top.acc)
                    \o <<ActFrame,
                         BodyFrame(ActionBody(CurIns.r, CurIns.x, CurIns.y),
                                   "action", 0, Undef)>>
    /\ UNCHANGED <<scenario, heap, subs, tracking, user, stmt, history>>

\* a completeAction() that empties the batch and leaves it open while it
\* fires
CompleteActionLate ==
    /\ Running /\ Top.k = "act" /\ Top.phase = "body"
    /\ batch' = [batch EXCEPT !.sets = <<>>]
    /\ stack' = IF ~InAction(batch)
                THEN Append(Rest, [Top EXCEPT !.phase = "ret"])
                ELSE Rest \o <<[Top EXCEPT !.phase = "ret"],
                               PubAllFrame(AllReactions(<<>>,
                                    SelectSeq(batch.sets, LAMBDA z : z # Null),
                                    rsets))>>
    /\ UNCHANGED <<scenario, heap, subs, tracking, user, stmt, history>>

\* completeAction(): leave batching, then publishAll(observables), whose
\* nested for-of throws a TypeError on an undefined member of the batch
\* before any reaction is called
CompleteAction ==
    /\ Running /\ Top.k = "act" /\ Top.phase = "body"
    /\ batch' = NoBatch
    /\ stack' = IF ~InAction(batch)
                THEN Append(Rest, [Top EXCEPT !.phase = "ret"])
                ELSE IF Null \in SeqRange(batch.sets)
                THEN Rest \o <<[Top EXCEPT !.phase = "ret"],
                               PubAllFrame(<<>>), ExcFrame>>
                ELSE Rest \o <<[Top EXCEPT !.phase = "ret"],
                               PubAllFrame(AllReactions(<<>>, batch.sets, rsets))>>
    /\ UNCHANGED <<scenario, heap, subs, tracking, user, stmt, history>>

ActionReturn ==
    /\ Running /\ Top.k = "act" /\ Top.phase = "ret"
    /\ stack' = Rest
    /\ UNCHANGED <<scenario, heap, store, user, stmt, history>>

\* ------------------------------------------------ publish, publishAll
\* for (const reaction of reactionSet) reaction()
PublishNext ==
    /\ Running /\ Top.k = "pub" /\ Top.s # Null
    /\ Top.i < Len(rsets[Top.s])
    /\ stack' = Rest \o <<[Top EXCEPT !.i = @ + 1],
                          ReactFrame(rsets[Top.s][Top.i + 1])>>
    /\ UNCHANGED <<scenario, heap, store, user, stmt, history>>

PublishReturn ==
    /\ Running /\ Top.k = "pub" /\ Top.s # Null
    /\ Top.i >= Len(rsets[Top.s])
    /\ stack' = Rest
    /\ UNCHANGED <<scenario, heap, store, user, stmt, history>>

\* for (const reaction of allReactions) reaction()
PublishAllNext ==
    /\ Running /\ Top.k = "puball" /\ Top.i < Len(Top.all)
    /\ stack' = Rest \o <<[Top EXCEPT !.i = @ + 1],
                          ReactFrame(Top.all[Top.i + 1])>>
    /\ UNCHANGED <<scenario, heap, store, user, stmt, history>>

PublishAllReturn ==
    /\ Running /\ Top.k = "puball" /\ Top.i >= Len(Top.all)
    /\ stack' = Rest
    /\ UNCHANGED <<scenario, heap, store, user, stmt, history>>

\* ------------------------------------------------ top-level statements
Vals == {Num(n) : n \in 0..MaxVal}
\* reaction() / computed() was called for r: it returned, or it threw
\* after beginTracking(reactionFn)
Called == made \cup DOMAIN subs
NextToMake ==
    {r \in 1..Count(scenario) :
        r \notin Called /\ \A q \in 1..(r - 1) : q \in Called}

SetA == {ISet(<<"foo", "a">>, v) : v \in Vals}
SetB == {ISet(<<"foo", "b">>, v) : v \in Vals}
Calls(a) == {ICall(a, x, y) : x \in Vals, y \in Vals}

\* the statements the user program may execute next at top level
Disposals == {IDispose(r) : r \in made}
Menu ==
    IF scenario = "rootarr"
    THEN IF root = Null
         THEN IF Len(objs) < MaxObjs
              THEN {IObservable(LitList), IObservable(LitEmpty)} ELSE {}
         ELSE IF Len(objs[root].elems) < MaxLen
              THEN {IPush(<<>>, Num(0)), ICall(7, Num(0), Num(0))} ELSE {}
    ELSE IF root = Null THEN {IObservable(RootLit(scenario))}
    ELSE {IF IsComputed(scenario, r) THEN IComputed(r) ELSE IReaction(r) :
                r \in NextToMake}
         \cup CASE scenario = "combine" ->
                        Disposals \cup SetA \cup SetB \cup Calls(1)
                [] scenario = "diamond" -> Disposals \cup SetA
                [] scenario = "branch" ->
                        Disposals \cup SetA \cup SetB \cup Calls(1)
                        \cup {ISet(<<"flag">>, v) : v \in Vals}
                [] scenario = "shape" ->
                        {ISet(<<"foo", "stuff">>, v) : v \in Vals}
                        \cup {ICall(4, v, v) : v \in Vals}
                        \cup (IF Len(objs) < MaxObjs
                              THEN {ISet(<<"foo">>, Lit(LitFoo1))} ELSE {})
                [] scenario = "dispose" ->
                        Disposals \cup SetA
                        \cup {IPush(<<"list">>, v) : v \in Vals}
                        \cup Calls(2) \cup Calls(3)
                [] scenario = "throws" -> SetA \cup SetB \cup Calls(1)
                [] scenario = "reentrant" -> SetA \cup SetB
                [] scenario = "nested" -> Calls(5)
                [] scenario = "cdispose" ->
                        ({IDispose(2)} \cap Disposals)
                        \cup SetA \cup {ICall(1, v, v) : v \in Vals}
                [] scenario = "index" ->
                        {ISet(<<"list", "0">>, v) : v \in Vals}
                        \cup (IF Len(objs[PropVal(root, "list").v].elems) < MaxLen
                              THEN {IPush(<<"list">>, Num(0))} ELSE {})
                [] scenario = "rootshape" ->
                        {ISet(<<k>>, v) : k \in {"flag", "stuff"}, v \in Vals}
                [] scenario = "athrow" ->
                        SetA \cup Calls(8) \cup {ICall(3, v, v) : v \in Vals}
                        \cup {IGet(<<"foo", "a">>)}
                [] scenario = "lazy" ->
                        {ISet(<<"foo", "stuff">>, v) : v \in Vals \cup {NaN}}
                [] scenario = "alias" ->
                        SetA \cup {ISet(<<"foo", "a">>, NaN),
                                   ISetP(<<"foo">>, <<"foo">>)}
                        \cup (IF Len(objs) < MaxObjs
                              THEN {ISetP(<<"other">>, <<"foo">>),
                                    ISet(<<"flag">>, Lit(LitObjs))}
                              ELSE {})
                        \cup (IF "other" \in DOMAIN objs[root].val
                              THEN {ISet(<<"other", "a">>, v) : v \in Vals}
                              ELSE {})

\* the user program executes its next top-level statement
Statement ==
    /\ ~Running
    /\ \E ins \in Menu :
        /\ stmt' = ins
        /\ stack' = <<BodyFrame(<<ins>>, "main", 0, Undef)>>
    /\ UNCHANGED <<scenario, heap, store, user, history>>

Next ==
    \/ Statement
    \/ ProxyGet
    \/ ProxySet
    \/ SetAssign
    \/ SetReturn
    \/ Observable
    \/ WrapCopyKey
    \/ WrapCopyElem
    \/ WrapReturn
    \/ UserPush
    \/ Dispose
    \/ Reaction
    \/ Computed
    \/ ComputedReaction
    \/ MakeReturn
    \/ ReactionBegin
    \/ TrackedReturn
    \/ ReactionComplete
    \/ FunctionReturn
    \/ StatementDone
    \/ ReactionReturn
    \/ CallAction
    \/ CompleteAction
    \/ ActionReturn
    \/ PublishNext
    \/ PublishReturn
    \/ PublishAllNext
    \/ PublishAllReturn
    \/ Throw
    \/ Unwind
    \/ StatementThrew

Spec == Init /\ [][Next]_vars

\* the JavaScript engine runs a started statement on: whenever a step of
\* the program is possible, one is eventually taken
FairSpec == Spec /\ WF_vars(Next)

\* =========================================================== properties
\* the top-level statement has run to its end
StmtReturned ==
    /\ Running /\ Len(stack) = 1
    /\ Top.role = "main" /\ Top.pc > Len(Top.code)
\* a set trap has published and is about to return
SetReturning == Running /\ Top.k = "set" /\ Top.phase = "ret"
\* reaction() / computed() is about to return: reactionFn() has returned
Returning(r) == Running /\ Top.k = "mk" /\ Top.phase = "run" /\ Top.r = r
\* every reaction of the scenario exists and none was disposed
AllLive == made = 1..Count(scenario) /\ disposed = {}
\* the object currently stored in obs.foo
Foo == PropVal(root, "foo").v

\* what the function of reaction r returns when every computed accessor
\* it calls returns what that computed's function returns now
RECURSIVE PureCode(_, _, _, _)
PureCode(sc, code, i, acc) ==
    IF i > Len(code) THEN acc
    ELSE LET ins == code[i] IN
         PureCode(sc, code, i + 1,
            CASE ins.op = "getc" -> PureCode(sc, Tracked(sc, ins.r), 1, Undef)
              [] ins.op = "addc" ->
                    Plus(acc, PureCode(sc, Tracked(sc, ins.r), 1, Undef))
              [] ins.op \in {"get", "getif", "ser"} -> ReadVal(ins, acc)
              [] OTHER -> acc)
Pure(r) == PureCode(scenario, Tracked(scenario, r), 1, Undef)

\* the tracked function of r only reads (a reaction pairs a pure observer
\* function with an effect)
PureFn(sc, r) ==
    \A i \in DOMAIN Tracked(sc, r) :
        Tracked(sc, r)[i].op \in {"get", "getif", "ser", "getc", "addc", "throwif"}

\* C1: when a write outside an action changes the value stored at an
\* existing field k, every reaction that is not disposed, whose tracked
\* function is pure and whose latest run read k has had its tracked
\* function and then its effect called again, the effect with the new
\* result, by the time the write returns.
C1_ChangePropagation ==
    (SetReturning /\ ~Top.newProp /\ ~Top.deferred) =>
        \A r \in Top.exp \ disposed :
            PureFn(scenario, r) =>
                /\ runs[r] > Top.runs0[r]
                /\ effs[r] > Top.effs0[r]
                /\ lastArg[r] = lastRes[r]

C1_Witness ==
    /\ SetReturning /\ ~Top.newProp /\ ~Top.deferred
    /\ \E r \in Top.exp \ disposed :
        /\ runs[r] > Top.runs0[r]
        /\ effs[r] > Top.effs0[r]
        /\ lastArg[r] = PropVal(Top.o, Top.prop)
        /\ lastArg[r].t = "num"

\* the paths a read instruction may read, and whether a write to path w
\* changes something read at path q
ReadPaths(ins) ==
    CASE ins.op = "get" -> {ins.path}
      [] ins.op = "getif" -> {ins.path, ins.p2, ins.p3}
      [] ins.op = "ser" -> {ins.path \o <<k>> : k \in {"a", "b", "stuff"}}
      [] OTHER -> {}
IsPrefix(w, q) == Len(w) <= Len(q) /\ SubSeq(q, 1, Len(w)) = w
\* the effect of r assigns a field its tracked function reads
SelfWriting(sc, r) ==
    \E i \in DOMAIN Effect(sc, r), j \in DOMAIN Tracked(sc, r) :
        /\ Effect(sc, r)[i].op = "set"
        /\ \E q \in ReadPaths(Tracked(sc, r)[j]) :
                IsPrefix(Effect(sc, r)[i].path, q)

C3_OncePerAction ==
    (scenario = "combine" /\ stmt.op = "call") => \A r \in Rs : runs[r] <= 1

\* C4, as specified: c1 reads a, c2 reads b, c3 reads c1() and c2(), a
\* reaction reads c3(); an action that changes a and b recomputes c3 once
\* and fires the reaction once.
C4_ComputedDedup ==
    (/\ StmtReturned /\ scenario = "combine" /\ stmt.op = "call" /\ AllLive
     /\ {<<Foo, "a">>, <<Foo, "b">>} \subseteq wrote)
        => runs[3] = 1 /\ effs[4] = 1

\* C5, as specified: c1 and c2 both read a, c3 reads c1() and c2(); one
\* write outside an action that changes a recomputes c3 exactly once.
C5_Diamond ==
    (/\ StmtReturned /\ scenario = "diamond" /\ stmt.op = "set" /\ AllLive
     /\ <<Foo, "a">> \in wrote)
        => runs[3] = 1

\* C6, as specified: a tracked function run by an action sees all of the
\* action's writes, also through computed accessors: what it returns is
\* what it returns on the data as the action left them.
C6_ActionAtomicity ==
    (scenario = "combine" /\ stmt.op = "call" /\ AllLive) =>
        \A n \in DOMAIN stack :
            (stack[n].k = "react" /\ stack[n].phase = "complete")
                => stack[n].res = Pure(stack[n].r)

\* the running step is a field write that changes the stored value, or a
\* mutating array operation
WriteStep ==
    /\ Running
    /\ \/ Top.k = "set" /\ Top.phase = "assign"
       \/ AtIns({"push"})
       \/ Top.k = "wrap" /\ IsArrayVal(Top.src) /\ ~WrapDone
\* the reaction-set that step publishes to
WriteStepSet ==
    IF Top.k = "set" THEN PublishTarget(Top.o, Top.prop, Top.newProp)
    ELSE IF Top.k = "wrap" THEN objs[Top.o].parent
    ELSE objs[PathVal(Ref(root), CurIns.path).v].parent

\* C7: while an action is open (after beginAction, before completeAction)
\* a field write or a mutating array operation invokes no reaction; the
\* reaction-set it publishes to is added to the batching set, and nothing
\* leaves that set.
C7_DeferredPublication ==
    [][(batch.open /\ WriteStep) =>
            /\ runs' = runs /\ effs' = effs
            /\ \A n \in DOMAIN stack' :
                    stack'[n].k \in {"pub", "puball", "react"}
                        => n <= Len(stack) /\ stack'[n] = stack[n]
            /\ batch'.open
            /\ SeqRange(batch.sets) \subseteq SeqRange(batch'.sets)
            /\ WriteStepSet # Null => WriteStepSet \in SeqRange(batch'.sets)
      ]_vars

\* a write inside an action has deferred a reaction-set that has a reader
C7_Witness ==
    /\ SetReturning /\ Top.deferred /\ batch.open
    /\ Top.t \in SeqRange(batch.sets)
    /\ \E r \in Top.exp : r \in SeqRange(rsets[Top.t]) /\ runs[r] = 0

\* C8, as specified: once dispose(handle) has returned, the reaction is
\* never invoked again, wherever dispose was called from.
C8_DisposalPermanent ==
    \A n \in DOMAIN stack :
        (stack[n].k = "react" /\ stack[n].phase = "begin")
            => stack[n].r \notin disposed

\* C9, as specified: after a run, a reaction is a member of the
\* reaction-sets of exactly the fields that run read.
C9_SubscriptionsReplaced ==
    (StmtReturned /\ scenario = "branch" /\ 1 \in made \ disposed) =>
        \A s \in DOMAIN rsets : (1 \in SeqRange(rsets[s])) <=> (s \in lastReads[1])

\* C10: a write of a field k that did not exist on a nested wrapped
\* object publishes to the object's parent reaction-set, which is the
\* handle of the field that holds the object and is not the handle of k;
\* outside an action every reaction whose latest run read the holding
\* field has been re-run when the write returns, inside an action the
\* parent reaction-set is in the batch.
C10_NewFieldEscalation ==
    (SetReturning /\ Top.newProp /\ objs[Top.o].parent # Null) =>
        /\ Top.t = objs[Top.o].parent
        /\ Top.t # HandleOf(Top.o, Top.prop)
        /\ \A p \in DOMAIN objs : \A k \in DOMAIN objs[p].val :
                objs[p].val[k] = Ref(Top.o) => Top.t = HandleOf(p, k)
        /\ ~Top.deferred =>
                \A r \in Top.exp \ disposed :
                    runs[r] > Top.runs0[r] /\ effs[r] > Top.effs0[r]
        /\ Top.deferred => Top.t \in SeqRange(batch.sets)

\* obs.foo.stuff = v outside an action re-ran a reaction that read obs.foo
\* and never read stuff
C10_Witness ==
    /\ SetReturning /\ Top.newProp /\ ~Top.deferred
    /\ root # Null /\ PropVal(root, "foo").t = "ref"
    /\ Top.o = Foo /\ Top.prop = "stuff"
    /\ Top.t = HandleOf(root, "foo")
    /\ \E r \in Top.exp \ disposed :
        /\ runs[r] > Top.runs0[r]
        /\ HandleOf(Top.o, Top.prop) \notin lastReads[r]

\* the value a field holds when user code is about to assign it
Stored == PropVal(SetTarget(CurIns), SetProp(CurIns))

\* C11, as specified: assigning a field the value it holds (the same
\* primitive, the same proxy) invokes no reaction, starts no publication,
\* adds nothing to the batch, mints no handle and leaves the heap as it is.
C11_NoOpUnchanged ==
    [][(AtIns({"set", "setc", "setp"}) /\ SetValue(CurIns, Top) = Stored) =>
            /\ runs' = runs /\ effs' = effs
            /\ batch' = batch
            /\ rsets' = rsets
            /\ objs' = objs
            /\ stack' = Advanced(Top.acc)
      ]_vars

\* C12, as specified: observable(w) of a proxy w returns w itself, so
\* after obs.p = obs.q both fields hold the same proxy, and a write
\* through obs.other.a re-runs the reaction that read obs.foo.a.
C12_IdempotentWrap ==
    /\ (StmtReturned /\ stmt.op = "setp") =>
            PathVal(Ref(root), stmt.path) = PathVal(Ref(root), stmt.p2)
    /\ (/\ StmtReturned /\ stmt.op = "set" /\ stmt.path = <<"other", "a">>
        /\ wrote # {} /\ 1 \in made \ disposed)
            => runs[1] >= 1

\* every object and array reachable from x is a proxy
RECURSIVE Wrapped(_)
Wrapped(x) ==
    CASE x.t = "lit" -> FALSE
      [] x.t = "ref" ->
            /\ \A k \in DOMAIN objs[x.v].val : Wrapped(objs[x.v].val[k])
            /\ \A i \in DOMAIN objs[x.v].elems : Wrapped(objs[x.v].elems[i])
      [] OTHER -> TRUE

\* C13, as specified: after every top-level statement each object or
\* array reachable from obs through fields and elements is a proxy.
C13_FullyWrapped ==
    (StmtReturned /\ root # Null) => Wrapped(Ref(root))

\* the reactions whose tracked function calls the accessor of computed c
CallersOf(sc, c) ==
    {r \in 1..Count(sc) :
        \E i \in DOMAIN Tracked(sc, r) :
            Tracked(sc, r)[i].op \in {"getc", "addc"} /\ Tracked(sc, r)[i].r = c}

\* C14, as specified: when a write or an action call has changed the
\* cached value of a computed, every live reaction or computed whose
\* function calls its accessor has been re-run.
C14_ComputedObservable ==
    (StmtReturned /\ stmt.op \in {"set", "call"}) =>
        \A c \in made :
            (IsComputed(scenario, c) /\ <<cache[c], "value">> \in wrote) =>
                \A r \in (CallersOf(scenario, c) \cap made) \ disposed :
                    runs[r] >= 1

\* what a function returns when it is evaluated on the current state
RECURSIVE NowCode(_, _, _)
NowCode(code, i, acc) ==
    IF i > Len(code) THEN acc
    ELSE NowCode(code, i + 1,
            IF code[i].op \in {"get", "getif", "ser", "getc", "addc"}
            THEN ReadVal(code[i], acc) ELSE acc)
Now(r) == NowCode(Tracked(scenario, r), 1, Undef)

\* C15, as specified: when a top-level write, array mutation or action
\* call has returned, the accessor of every live computed returns what
\* its function returns on the current state.
C15_NeverStale ==
    (StmtReturned /\ stmt.op \in {"set", "setp", "push", "call"}) =>
        \A c \in made \ disposed :
            IsComputed(scenario, c) => PropVal(cache[c], "value") = Now(c)

\* the top-level statement has thrown
StmtThrew == Running /\ Top.k = "exc" /\ Len(stack) = 2

\* C20: an exception thrown by a tracked function or an effect is caught
\* by no call of the library: every step takes it one call further up and
\* invokes no reaction, until the top-level statement that triggered the
\* run (reaction(), a field write, an action call) has thrown it.
C20_ExceptionsPropagate ==
    [][(Running /\ Top.k = "exc" /\ Len(stack) > 2) =>
            /\ Len(stack') = Len(stack) - 1
            /\ stack'[Len(stack')] = Top
            /\ SubSeq(stack', 1, Len(stack') - 1)
                    = SubSeq(stack, 1, Len(stack) - 2)
            /\ runs' = runs /\ effs' = effs
      ]_vars

\* an action call has thrown the exception of an effect that its
\* completeAction() fired
C20_Witness ==
    /\ StmtThrew /\ stmt.op = "call"
    /\ effs[2] >= 1 /\ lastArg[2] = Num(1)

\* C16, as specified: beginTracking while a tracking frame is open fails
\* at once and leaves the open frame and every subscription as they are.
C16_ReentrantTrackingRejected ==
    [][(/\ Running /\ Top.k = "react" /\ Top.phase = "begin"
        /\ tracking.fn # Null) =>
            /\ stack'[Len(stack')].k = "exc"
            /\ tracking' = tracking
            /\ subs' = subs
            /\ rsets' = rsets
      ]_vars

\* the handles of the fields whose stored value changed during stmt
WroteSets == {HandleOf(w[1], w[2]) : w \in wrote}

\* C17, as specified: an action called while an action is open joins the
\* outer batch: no reaction runs while an action body is still executing,
\* and when the outer call has returned every reaction that read a field
\* the call changed has been run.
C17_NestedActions ==
    /\ \A n \in DOMAIN stack :
            stack[n].k = "react" =>
                \A m \in 1..(n - 1) :
                    ~(stack[m].k = "act" /\ stack[m].phase = "body")
    /\ (StmtReturned /\ stmt.op = "call") =>
            \A r \in made \ disposed :
                (PureFn(scenario, r) /\ lastReads[r] \cap WroteSets # {})
                    => runs[r] >= 1

\* C18, as specified: dispose(handle) of a handle that was disposed
\* before changes no reaction-set and no subscription record and invokes
\* nothing.
C18_DisposeIdempotent ==
    [][(AtIns({"dispose"}) /\ CurIns.r \in disposed) =>
            /\ rsets' = rsets
            /\ subs' = subs
            /\ runs' = runs /\ effs' = effs
            /\ stack' = Advanced(Top.acc)
      ]_vars

\* C19, as specified: once dispose(accessor) was called for a computed,
\* its function is not invoked again, its cache is not assigned again
\* and no reaction is re-run because of it.
C19_ComputedDisposed ==
    \A n \in DOMAIN stack :
        (/\ stack[n].k = "react" /\ stack[n].phase \in {"begin", "effect"}
         /\ IsComputed(scenario, stack[n].r))
            => stack[n].r \notin disposed

\* C21: whenever an effect function executes, no tracking frame is open,
\* so nothing the effect reads is attributed to a reaction; at the call of
\* the effect the reaction is a member of the reaction-set of every
\* handle its (pure) tracked function read in that run; and when the
\* effect throws, the frame is closed.
C21_TrackingBeforeEffect ==
    /\ (Running /\ Top.k = "body" /\ Top.role = "effect") =>
            /\ tracking.fn = Null
            /\ (Top.pc = 1 /\ PureFn(scenario, Top.r)) =>
                    \A h \in lastReads[Top.r] : Top.r \in SeqRange(rsets[h])
    /\ (/\ Running /\ Top.k = "exc" /\ Len(stack) > 1
        /\ stack[Len(stack) - 1].k = "body"
        /\ stack[Len(stack) - 1].role = "effect") => tracking.fn = Null

\* an effect has read obs.foo on its way to a write, and an effect has
\* thrown
C21_Witness ==
    /\ Running /\ Top.k = "exc" /\ Len(stack) > 1
    /\ stack[Len(stack) - 1].k = "body"
    /\ stack[Len(stack) - 1].role = "effect"
    /\ lastReads[stack[Len(stack) - 1].r] # {}
    /\ tracking.fn = Null

\* C22: obs.list.push(x) appends x to the underlying array and returns
\* the new length; outside an action every live reaction whose latest run
\* read obs.list has been run again (tracked function and effect) when
\* push returns, inside an action nothing has run and the batch holds
\* exactly the reaction-set of the field list.
C22_ArrayMutatorPublishes ==
    (/\ Running /\ Top.k = "body" /\ Top.pc > 1
     /\ Top.code[Top.pc - 1].op = "push"
     /\ Top.code[Top.pc - 1].path # <<>>) =>
        LET ins == Top.code[Top.pc - 1]
            o == PathVal(Ref(root), ins.path).v
            p == objs[o].parent
        IN /\ Last(objs[o].elems) = ins.x
           /\ Top.acc = Num(Len(objs[o].elems))
           /\ p = HandleOf(root, Last(ins.path))
           /\ Top.role = "main" =>
                \A r \in Readers(p) :
                    PureFn(scenario, r) => runs[r] >= 1 /\ effs[r] >= 1
           /\ Top.role = "action" =>
                batch.open /\ batch.sets = <<p>> /\ runs = ZeroRuns

\* a push outside an action has re-run the reaction that read obs.list,
\* and the array was at its full length before
C22_Witness ==
    /\ StmtReturned /\ stmt.op = "push" /\ scenario = "dispose"
    /\ Top.acc = Num(MaxLen)
    /\ 4 \in made \ disposed /\ runs[4] = 1 /\ effs[4] = 1

\* C23: a reaction-set belongs to one field of one object: no two
\* (object, field) pairs share a handle; and a write to obs.other.a, a
\* field named like obs.foo.a on another object, publishes to a set the
\* reaction that read obs.foo.a is not in, and does not invoke it.
C23_NoCrossObjectCollision ==
    /\ \A o1 \in DOMAIN objs, o2 \in DOMAIN objs :
        \A k1 \in DOMAIN objs[o1].h, k2 \in DOMAIN objs[o2].h :
            objs[o1].h[k1] = objs[o2].h[k2] => o1 = o2 /\ k1 = k2
    /\ (/\ SetReturning /\ scenario = "alias"
        /\ stmt.op = "set" /\ stmt.path = <<"other", "a">>) =>
            /\ Top.o # Foo
            /\ Top.t = HandleOf(Top.o, "a")
            /\ Top.t # HandleOf(Foo, "a")
            /\ 1 \notin SeqRange(rsets[Top.t])
            /\ runs[1] = 0 /\ effs[1] = 0

\* obs.other.a was assigned a new value while the reaction reading
\* obs.foo.a was subscribed to the handle of obs.foo.a
C23_Witness ==
    /\ SetReturning /\ scenario = "alias"
    /\ stmt.op = "set" /\ stmt.path = <<"other", "a">>
    /\ <<Top.o, "a">> \in wrote
    /\ 1 \in made
    /\ 1 \in SeqRange(rsets[HandleOf(Foo, "a")])

\* C24, as specified: when the function of a computed was re-run and
\* returned the value the cache holds, the cache write of its effect
\* starts no publication: no reaction or computed is run and nothing is
\* added to the batch.
C24_RepublishOnlyOnChange ==
    [][(AtIns({"setc"}) /\ SetValue(CurIns, Top) = Stored) =>
            /\ stack' = Advanced(Top.acc)
            /\ batch' = batch
            /\ runs' = runs /\ effs' = effs
      ]_vars

\* C25: when observable(literal) has returned, and when a field write of
\* a literal has returned, the proxy has the keys of the literal in the
\* same order, every primitive field holds the identical value, and
\* every nested object or array has, recursively, the same keys and the
\* same elements in the same order.
C25_WrapPreservesContent ==
    LET RECURSIVE Same(_, _)
        Same(x, y) ==
            IF x.t = "lit"
            THEN /\ y.t = "ref"
                 /\ objs[y.v].arr = LitIsArray(x.v)
                 /\ objs[y.v].keys = LitKeys(x.v)
                 /\ DOMAIN objs[y.v].val = SeqRange(LitKeys(x.v))
                 /\ \A k \in SeqRange(LitKeys(x.v)) :
                        Same(LitVal(x.v, k), objs[y.v].val[k])
                 /\ objs[y.v].elems = LitElems(x.v)
            ELSE x = y
    IN /\ (StmtReturned /\ stmt.op = "observable") =>
            root # Null /\ Same(stmt.x, Ref(root))
       /\ (/\ SetReturning /\ Len(stack) = 2
           /\ stmt.op = "set" /\ stmt.x.t = "lit") =>
            Same(stmt.x, PropVal(Top.o, Top.prop))

\* observable({foo: {a: 0, b: 0}, list: [0]}) has returned
C25_Witness ==
    /\ StmtReturned /\ stmt.op = "observable" /\ root # Null
    /\ objs[root].keys = <<"foo", "list">>
    /\ objs[PropVal(root, "list").v].elems = <<Num(0)>>
    /\ objs[Foo].val["b"] = Num(0)

\* C26, as specified: when completeTracking() of a run has returned (the
\* effect is about to execute), the reaction is a member of the
\* reaction-set of every handle its tracked function read in that run,
\* also when the tracked function made another reaction run.
C26_ReentrancyKeepsSubscriptions ==
    (Running /\ Top.k = "body" /\ Top.role = "effect" /\ Top.pc = 1) =>
        \A h \in lastReads[Top.r] : Top.r \in SeqRange(rsets[h])

\* C27: in a program whose tracked functions are pure and whose effects
\* assign no field but the cache of a computed, every started top-level
\* statement (a field write, a push, an action call, reaction(),
\* computed(), dispose()) comes to its end, by returning or by throwing,
\* and until then no tracked function has been started MaxRuns times.
C27_Termination ==
    LET acyclic ==
            \A r \in 1..Count(scenario) :
                /\ PureFn(scenario, r)
                /\ \A i \in DOMAIN Effect(scenario, r) :
                        Effect(scenario, r)[i].op \notin {"set", "setp", "push"}
    IN /\ (acyclic /\ Running) ~> ~Running
       /\ [](acyclic => \A r \in Rs : runs[r] < MaxRuns)

\* an action call that changed a and b has returned after it ran the
\* computed that reads both more than once
C27_Witness ==
    /\ StmtReturned /\ scenario = "combine" /\ stmt.op = "call" /\ AllLive
    /\ runs[3] >= 2 /\ effs[4] >= 1

\* C28, as specified: the reaction read obs.list[0], an element the
\* array had when it was wrapped; when an assignment obs.list[0] = v that
\* changes the element returns, the reaction has been run again.
C28_ElementTracked ==
    (/\ SetReturning /\ scenario = "index" /\ Top.prop = "0"
     /\ 1 \in made \ disposed) =>
        runs[1] > Top.runs0[1]

\* C29, as specified: the reaction serialized the root object obs; when
\* a write of a field that obs did not have returns, the reaction has
\* been run again.
C29_RootShapeObserved ==
    (/\ SetReturning /\ scenario = "rootshape"
     /\ Top.o = root /\ Top.newProp
     /\ 1 \in made \ disposed) =>
        runs[1] > Top.runs0[1]

\* C30, as specified: in a program that wraps an array at the root and
\* pushes to it, outside an action and inside one, no call raises.
C30_RootArraysUsable ==
    scenario = "rootarr" => ~(Running /\ Top.k = "exc")

\* C31, as specified: once a call of an action-wrapped function has
\* ended, by returning or by throwing, the batching set is null: no
\* action is open in a state in which no such call is on the stack.
C31_BatchingReturnsToIdle ==
    (\A n \in DOMAIN stack : stack[n].k # "act") => ~batch.open

\* C32, as specified: in every state in which no tracked function is on
\* the call stack (no reactionFn is between its beginTracking and its
\* completeTracking), currentlyTracking is null, also after a tracked
\* function has thrown.
C32_FrameOnlyWhileTracked ==
    (\A n \in DOMAIN stack :
        ~(stack[n].k = "react" /\ stack[n].phase \in {"tracked", "complete"}))
            => tracking.fn = Null

\* C33: completeAction fires the reactions that are, when the action
\* completes, members of the reaction-sets collected during the action,
\* each once; dispose(r) in an action body takes r out of every collected
\* set; so a reaction that action body 3 disposes after it wrote the
\* field the reaction read is not invoked by that call.
C33_MembershipAtCompletion ==
    /\ [][(/\ Running /\ Top.k = "act" /\ Top.phase = "body" /\ batch.open
           /\ Null \notin SeqRange(batch.sets)) =>
            LET f == stack'[Len(stack')] IN
            /\ f.k = "puball" /\ f.i = 0
            /\ SeqRange(f.all) =
                    UNION {SeqRange(rsets[s]) : s \in SeqRange(batch.sets)}
            /\ \A i \in DOMAIN f.all, j \in DOMAIN f.all :
                    f.all[i] = f.all[j] => i = j
            /\ runs' = runs
          ]_vars
    /\ [][(Running /\ Top.k = "puball" /\ Len(stack') > Len(stack)) =>
            /\ Top.i < Len(Top.all)
            /\ stack'[Len(stack')] = ReactFrame(Top.all[Top.i + 1])
            /\ stack'[Len(stack)].i = Top.i + 1
          ]_vars
    /\ [][(/\ AtIns({"dispose"}) /\ Top.role = "action" /\ CurIns.r \in made
           /\ batch.open) =>
            \A s \in SeqRange(batch'.sets) \ {Null} :
                CurIns.r \notin SeqRange(rsets'[s])
          ]_vars
    /\ []((stmt.op = "call" /\ stmt.r = 3) => runs[2] = 0)

\* a call of action body 3 has returned: it changed obs.foo.a, which both
\* reactions had read, disposed reaction 2, and at its completion
\* reaction 1 was run and reaction 2 was not
C33_Witness ==
    /\ StmtReturned /\ scenario = "athrow"
    /\ stmt.op = "call" /\ stmt.r = 3
    /\ <<Foo, "a">> \in wrote
    /\ HandleOf(Foo, "a") \in lastReads[1] \cap lastReads[2]
    /\ 2 \in disposed /\ 2 \notin SeqRange(rsets[HandleOf(Foo, "a")])
    /\ runs[1] = 1 /\ effs[1] = 1 /\ runs[2] = 0

\* C34: completeAction resets the batching set before it fires: while
\* its publishAll is on the call stack no action is open; a write by an
\* effect fired at completion that changes an existing field (the cache
\* write of a computed) starts the publication of the field's handle at
\* once, adding nothing to a batch.
C34_IdleBeforeFiring ==
    /\ []((\E n \in DOMAIN stack : stack[n].k = "puball") => ~batch.open)
    /\ [][(/\ Running /\ Top.k = "set" /\ Top.phase = "assign"
           /\ \E n \in DOMAIN stack : stack[n].k = "puball"
           /\ PublishTarget(Top.o, Top.prop, Top.newProp) # Null) =>
            /\ stack'[Len(stack')] =
                    PubFrame(PublishTarget(Top.o, Top.prop, Top.newProp))
            /\ ~stack'[Len(stack') - 1].deferred
            /\ batch' = NoBatch
          ]_vars

\* the cache write of computed 1, fired at the completion of an action
\* call, has re-run computed 3, which reads it
C34_Witness ==
    /\ SetReturning /\ scenario = "combine" /\ stmt.op = "call"
    /\ \E n \in DOMAIN stack : stack[n].k = "puball"
    /\ stack[Len(stack) - 1].k = "body"
    /\ stack[Len(stack) - 1].role = "effect" /\ stack[Len(stack) - 1].r = 1
    /\ Top.o = cache[1] /\ Top.t = HandleOf(cache[1], "value")
    /\ ~Top.deferred /\ ~batch.open
    /\ 3 \in Top.exp /\ runs[3] > Top.runs0[3]

\* C35, as specified: in every reachable state, every reaction-set that
\* has reaction r as a member is recorded in r's entry of the
\* subscription map.
C35_BookkeepingComplete ==
    \A s \in DOMAIN rsets : \A r \in SeqRange(rsets[s]) :
        r \in DOMAIN subs /\ s \in subs[r]

\* C36: the reaction-set of a (wrapped object, field) pair is created at
\* most once: no step changes or removes the handle a field has; a handle
\* that a step creates is a new, empty reaction-set, created by an
\* effective write of a field that had none; a write to a field that has
\* a handle leaves the members of that reaction-set as they are and
\* publishes to it, also when the value written is an object or array.
C36_HandlesStable ==
    /\ [][\A o \in DOMAIN objs :
            /\ \A k \in DOMAIN objs[o].h :
                    /\ k \in DOMAIN objs'[o].h
                    /\ objs'[o].h[k] = objs[o].h[k]
            /\ \A k \in DOMAIN objs'[o].h \ DOMAIN objs[o].h :
                    /\ objs'[o].h[k] \notin DOMAIN rsets
                    /\ rsets'[objs'[o].h[k]] = <<>>
                    /\ \E n \in DOMAIN stack' :
                            /\ stack'[n].k = "set"
                            /\ stack'[n].o = o /\ stack'[n].prop = k
          ]_vars
    /\ [][(AtIns({"set", "setp", "setc"}) \/ (Running /\ Top.k = "wrap")) =>
            \A h \in DOMAIN rsets : rsets'[h] = rsets[h]
          ]_vars
    /\ []((SetReturning /\ ~Top.newProp) =>
            /\ Top.t = HandleOf(Top.o, Top.prop)
            /\ Top.t # Null
            /\ IsComposite(PropVal(Top.o, Top.prop)) =>
                    objs[PropVal(Top.o, Top.prop).v].parent = Top.t)

\* obs.foo = {a: 1, b: 1} has returned: the write went to the handle the
\* field foo had before, and the reaction that had read obs.foo was run
C36_Witness ==
    /\ SetReturning /\ scenario = "shape" /\ Len(stack) = 2
    /\ stmt.op = "set" /\ stmt.path = <<"foo">> /\ stmt.x.t = "lit"
    /\ Top.o = root /\ ~Top.newProp
    /\ Top.t = HandleOf(root, "foo")
    /\ 1 \in Top.exp /\ 1 \in SeqRange(rsets[Top.t])
    /\ runs[1] > Top.runs0[1]

\* C37: a read of a wrapped field (or of a computed accessor) while no
\* tracking frame is open changes no reaction-set, no subscription
\* record, no batch and not the frame, and runs nothing.
C37_UntrackedReads ==
    [][(AtIns({"get", "getif", "ser", "getc", "addc"}) /\ tracking.fn = Null) =>
            /\ rsets' = rsets
            /\ subs' = subs
            /\ batch' = batch
            /\ tracking' = tracking
            /\ runs' = runs /\ effs' = effs
            /\ stack' = Advanced(ReadVal(CurIns, Top.acc))
      ]_vars

\* the statement v = obs.foo.a at top level has read 1 while two
\* reactions were subscribed to the field
C37_Witness ==
    /\ StmtReturned /\ scenario = "athrow" /\ stmt.op = "get"
    /\ Top.acc = Num(1)
    /\ tracking = NoTracking
    /\ SeqRange(rsets[HandleOf(Foo, "a")]) = {1, 2}
    /\ subs[1] = subs[2]

\* C38: dispose(r) takes no reaction but r out of any reaction-set and
\* adds none, leaves the subscription records of the other reactions,
\* the tracking frame, the batch and every stored value unchanged, and
\* invokes no reaction.
C38_DisposeFrame ==
    [][AtIns({"dispose"}) =>
            LET r == CurIns.r IN
            /\ \A s \in DOMAIN rsets :
                    /\ SetDelete(rsets'[s], r) = SetDelete(rsets[s], r)
                    /\ SeqRange(rsets'[s]) \subseteq SeqRange(rsets[s])
            /\ DOMAIN rsets' = DOMAIN rsets
            /\ \A q \in DOMAIN subs \ {r} : q \in DOMAIN subs' /\ subs'[q] = subs[q]
            /\ DOMAIN subs' \subseteq DOMAIN subs
            /\ tracking' = tracking
            /\ batch' = batch
            /\ objs' = objs
            /\ runs' = runs /\ effs' = effs
            /\ Len(stack') = Len(stack)
            /\ \A n \in DOMAIN stack : stack'[n].k = stack[n].k
      ]_vars

\* dispose(handle2) in the effect of reaction 1 has removed reaction 2
\* from a reaction-set that reactions 1 and 3 are still members of
C38_Witness ==
    /\ Running /\ Top.k = "body" /\ Top.role = "effect" /\ Top.pc = 2
    /\ Top.code[1].op = "dispose" /\ scenario = "dispose"
    /\ 2 \in disposed /\ 2 \notin DOMAIN subs
    /\ \E s \in DOMAIN rsets :
            /\ s \in lastReads[2]
            /\ {1, 3} \subseteq SeqRange(rsets[s]) /\ 2 \notin SeqRange(rsets[s])
    /\ subs[1] # {} /\ subs[3] # {}

\* C39: in every state, a wrapped object or array stored in field k of
\* a wrapped object P has as its parent reaction-set P's reaction-set of
\* k, and is stored in no other field; also for the value that
\* obs.other = obs.foo stores.
C39_ParentBackReference ==
    \A P \in DOMAIN objs : \A k \in DOMAIN objs[P].val :
        objs[P].val[k].t = "ref" =>
            LET o == objs[P].val[k].v IN
            /\ o \in DOMAIN objs
            /\ k \in DOMAIN objs[P].h
            /\ objs[o].parent = objs[P].h[k]
            /\ \A Q \in DOMAIN objs : \A j \in DOMAIN objs[Q].val :
                    objs[Q].val[j] = Ref(o) => Q = P /\ j = k

\* obs.other = obs.foo has returned
C39_Witness ==
    /\ StmtReturned /\ scenario = "alias"
    /\ stmt.op = "setp" /\ stmt.path = <<"other">>
    /\ PropVal(root, "other").t = "ref"
    /\ objs[PropVal(root, "other").v].parent = HandleOf(root, "other")
    /\ objs[Foo].parent = HandleOf(root, "foo")
    /\ HandleOf(root, "other") # HandleOf(root, "foo")

====
